---- MODULE Spec2Model ----
(***************************************************************************)
(* A model of the CHIP-8 interpreter of stmio/chip8: the machine state of  *)
(* ChipState (src/interpreter/mod.rs), the decoder Instruction::decode     *)
(* (src/interpreter/instruction.rs) and the host sequence of main.rs:      *)
(* new(freq), load(rom), then step(keys) once per clock period.            *)
(*                                                                         *)
(* A Rust panic (an out-of-range index or slice, the panic! of decode, an  *)
(* arithmetic overflow in a build with overflow checks) ends the process:  *)
(* it is modelled as status = "aborted" with the cause in fault.  Integer  *)
(* overflow depends on the build profile: it panics with overflow checks   *)
(* (debug) and wraps without them (release); overflow_checks is chosen in  *)
(* Init and both outcomes are explored.                                    *)
(***************************************************************************)
EXTENDS Integers, Sequences, FiniteSets, TLC

(***************************************************************************)
(* Program constants.                                                      *)
(***************************************************************************)
MemSize == 4096
NumRegs == 16
StackSize == 16
DisplayWidth == 64
DisplayHeight == 32
NumKeys == 16
ProgramStart == \h200
FontStart == \h50
FontEnd == \hA0
TickerReset == 16666667
NanosPerSec == 1000000000
MaxSpriteRows == 15
ByteBits == 8

U8 == 256
U16 == 65536

Min(a, b) == IF a < b THEN a ELSE b
Max(a, b) == IF a > b THEN a ELSE b

(***************************************************************************)
(* Bitwise operations on bytes, bit by bit.                                *)
(***************************************************************************)
Bit(v, i) == (v \div (2 ^ i)) % 2

AndBit(p, q) == p * q
OrBit(p, q) == IF p + q > 0 THEN 1 ELSE 0
XorBit(p, q) == (p + q) % 2

\* The byte whose bits 0..i are those of a and b combined by the operator
\* named kind.
RECURSIVE BitFold(_, _, _, _)
BitFold(kind, a, b, i) ==
    IF i < 0 THEN 0
    ELSE (CASE kind = "and" -> AndBit(Bit(a, i), Bit(b, i))
            [] kind = "or" -> OrBit(Bit(a, i), Bit(b, i))
            [] kind = "xor" -> XorBit(Bit(a, i), Bit(b, i))) * (2 ^ i)
         + BitFold(kind, a, b, i - 1)

BitAnd(a, b) == BitFold("and", a, b, ByteBits - 1)
BitOr(a, b) == BitFold("or", a, b, ByteBits - 1)
BitXor(a, b) == BitFold("xor", a, b, ByteBits - 1)

(***************************************************************************)
(* The built-in font (font::FONT, 80 bytes): 16 glyphs of 5 bytes.         *)
(***************************************************************************)
FONT ==
    << \hF0, \h90, \h90, \h90, \hF0,   \h20, \h60, \h20, \h20, \h70,
       \hF0, \h10, \hF0, \h80, \hF0,   \hF0, \h10, \hF0, \h10, \hF0,
       \h90, \h90, \hF0, \h10, \h10,   \hF0, \h80, \hF0, \h10, \hF0,
       \hF0, \h80, \hF0, \h90, \hF0,   \hF0, \h10, \h20, \h40, \h40,
       \hF0, \h90, \hF0, \h90, \hF0,   \hF0, \h90, \hF0, \h10, \hF0,
       \hF0, \h90, \hF0, \h90, \h90,   \hE0, \h90, \hE0, \h90, \hE0,
       \hF0, \h80, \h80, \h80, \hF0,   \hE0, \h90, \h90, \h90, \hE0,
       \hF0, \h80, \hF0, \h80, \hF0,   \hF0, \h80, \hF0, \h80, \h80 >>

(***************************************************************************)
(* Instruction::decode.  The match arms are tried in source order; an      *)
(* opcode that matches none reaches the panic! arm (DecodePanic).          *)
(***************************************************************************)
nibbles(n) ==
    << n \div 4096, (n \div 256) % 16, (n \div 16) % 16, n % 16 >>

DecodePanic == [op |-> "panic"]

decode(opcode) ==
    LET addr == opcode % 4096
        byte == opcode % 256
        nb == nibbles(opcode)
        n3 == nb[1]
        x == nb[2]
        y == nb[3]
        n == nb[4]
    IN  CASE n3 = 0 ->
                 IF x = 0 /\ y = 14 /\ n = 14 THEN [op |-> "Ret"]
                 ELSE IF x = 0 /\ y = 14 /\ n = 0 THEN [op |-> "Cls"]
                 ELSE [op |-> "Nop"]
          [] n3 = 1 -> [op |-> "Jmp", addr |-> addr]
          [] n3 = 2 -> [op |-> "Call", addr |-> addr]
          [] n3 = 3 -> [op |-> "Ske", x |-> x, byte |-> byte]
          [] n3 = 4 -> [op |-> "Skne", x |-> x, byte |-> byte]
          [] n3 = 5 /\ n = 0 -> [op |-> "Skre", x |-> x, y |-> y]
          [] n3 = 6 -> [op |-> "Setr", x |-> x, byte |-> byte]
          [] n3 = 7 -> [op |-> "Addr", x |-> x, byte |-> byte]
          [] n3 = 8 /\ n = 0 -> [op |-> "Move", x |-> x, y |-> y]
          [] n3 = 8 /\ n = 1 -> [op |-> "Or", x |-> x, y |-> y]
          [] n3 = 8 /\ n = 2 -> [op |-> "And", x |-> x, y |-> y]
          [] n3 = 8 /\ n = 3 -> [op |-> "Xor", x |-> x, y |-> y]
          [] n3 = 8 /\ n = 4 -> [op |-> "Add", x |-> x, y |-> y]
          [] n3 = 8 /\ n = 5 -> [op |-> "Sub", x |-> x, y |-> y]
          [] n3 = 8 /\ n = 6 -> [op |-> "Shr", x |-> x, y |-> y]
          [] n3 = 8 /\ n = 7 -> [op |-> "Ssub", x |-> x, y |-> y]
          [] n3 = 8 /\ n = 14 -> [op |-> "Shl", x |-> x, y |-> y]
          [] n3 = 9 /\ n = 0 -> [op |-> "Skrne", x |-> x, y |-> y]
          [] n3 = 10 -> [op |-> "Seti", addr |-> addr]
          [] n3 = 11 -> [op |-> "Jmpr", addr |-> addr]
          [] n3 = 12 -> [op |-> "Rand", x |-> x, byte |-> byte]
          [] n3 = 13 -> [op |-> "Draw", x |-> x, y |-> y, n |-> n]
          [] n3 = 14 /\ y = 9 /\ n = 14 -> [op |-> "Skp", x |-> x]
          [] n3 = 14 /\ y = 10 /\ n = 1 -> [op |-> "Sknp", x |-> x]
          [] n3 = 15 /\ y = 0 /\ n = 7 -> [op |-> "Moved", x |-> x]
          [] n3 = 15 /\ y = 0 /\ n = 10 -> [op |-> "Key", x |-> x]
          [] n3 = 15 /\ y = 1 /\ n = 5 -> [op |-> "Setrd", x |-> x]
          [] n3 = 15 /\ y = 1 /\ n = 8 -> [op |-> "Setrs", x |-> x]
          [] n3 = 15 /\ y = 1 /\ n = 14 -> [op |-> "Addi", x |-> x]
          [] n3 = 15 /\ y = 2 /\ n = 9 -> [op |-> "Ldfnt", x |-> x]
          [] n3 = 15 /\ y = 3 /\ n = 3 -> [op |-> "Bcd", x |-> x]
          [] n3 = 15 /\ y = 5 /\ n = 5 -> [op |-> "Store", x |-> x]
          [] n3 = 15 /\ y = 6 /\ n = 5 -> [op |-> "Load", x |-> x]
          [] OTHER -> DecodePanic

(***************************************************************************)
(* The machine state: the fields of ChipState, then the host's position    *)
(* (status, fault), the instruction of the last step (the one its debug    *)
(* log line names), the value the last step returned (frame), the build   *)
(* profile, and calls: whether the host loop has called step an odd number *)
(* of times.  A call of step that returns the machine as it was (a wait    *)
(* for a key in which the accumulator does not move) is still a step of    *)
(* the host loop, and calls is what tells it from no call at all.          *)
(***************************************************************************)
VARIABLES memory, registers, pc, index, pointer, stack, display, speed,
          ticker, delay_timer, sound_timer,
          status, fault, instruction, frame, overflow_checks, calls

chipVars == << memory, registers, pc, index, pointer, stack, display, speed,
               ticker, delay_timer, sound_timer >>
vars == << memory, registers, pc, index, pointer, stack, display, speed,
           ticker, delay_timer, sound_timer,
           status, fault, instruction, frame, overflow_checks, calls >>

\* The ChipState value held by the variables.
Chip ==
    [ memory |-> memory, registers |-> registers, pc |-> pc, index |-> index,
      pointer |-> pointer, stack |-> stack, display |-> display,
      speed |-> speed, ticker |-> ticker,
      delay_timer |-> delay_timer, sound_timer |-> sound_timer ]

\* Option<Display>: None is the empty sequence, Some(d) is << d >>.
NoFrame == << >>
NoInstruction == [op |-> "none"]

(***************************************************************************)
(* Representation.  memory ([u8; 4096]) is held as its difference from    *)
(* the array that new builds (zeros, with the font at 0x50..0x9F): the      *)
(* function from the addresses whose byte differs from that array to the   *)
(* byte they hold.  display ([[Pixel; 64]; 32]) is held as the set of the  *)
(* cells << y, x >> that are on.  Both are canonical: one value for each   *)
(* content of the array.  The bounds checks of the arrays are stated where *)
(* the source indexes them.                                                *)
(***************************************************************************)
\* Byte a of the memory of a new machine (mod.rs lines 55 to 57).
FreshByte(a) == IF a >= FontStart /\ a < FontEnd THEN FONT[a - FontStart + 1] ELSE 0

MemAt(m, a) == IF a \in DOMAIN m THEN m[a] ELSE FreshByte(a)

\* The memory that holds bytes[a] at every address a of DOMAIN bytes and m
\* elsewhere.
MemWrite(m, bytes) ==
    [a \in { b \in DOMAIN m \cup DOMAIN bytes :
               IF b \in DOMAIN bytes THEN bytes[b] # FreshByte(b) ELSE TRUE } |->
       IF a \in DOMAIN bytes THEN bytes[a] ELSE m[a]]

PixelAt(d, y, x) == IF << y, x >> \in d THEN 1 ELSE 0

PixelPut(d, y, x, v) == IF v = 1 THEN d \cup { << y, x >> } ELSE d \ { << y, x >> }

\* [[Pixel::default(); 64]; 32]
BlankDisplay == {}

\* 1_f64 / 0 is infinite, and Duration::from_secs_f64 panics on it.
DurationPanics(clock_freq) == clock_freq = 0

\* The frequencies whose period in nanoseconds ends in .5 are 1024 * 5^j.
\* Only 1 / 1024 is an f64, and stays a tie; of the others, rounded to an
\* f64, these lie below the tie and the rest above it.
TiesRoundedBelow == { 16000000, 80000000 }

\* Duration::from_secs_f64(1_f64 / clock_freq as f64), in nanoseconds: the
\* f64 quotient is rounded to the nearest nanosecond, a tie to the even one.
\* The rounding of the quotient to an f64 is less than the distance of any
\* exact period from a tie, so it matters only for the periods that end
\* in .5.
SpeedOf(clock_freq) ==
    LET q == NanosPerSec \div clock_freq
        r == NanosPerSec % clock_freq
    IN  IF r < clock_freq - r THEN q
        ELSE IF r > clock_freq - r THEN q + 1
        ELSE IF clock_freq = 1024 THEN q + (q % 2)
        ELSE IF clock_freq \in TiesRoundedBelow THEN q
        ELSE q + 1

\* ChipState::new.  When the conversion of the period panics no machine is
\* constructed: speed 0 stands for the field that was never computed.
new(clock_freq) ==
    [ memory |-> MemWrite(<< >>, [a \in 0 .. MemSize - 1 |-> FreshByte(a)]),
      registers |-> [r \in 0 .. NumRegs - 1 |-> 0],
      pc |-> ProgramStart,
      index |-> 0,
      pointer |-> 0,
      stack |-> [i \in 0 .. StackSize - 1 |-> 0],
      display |-> BlankDisplay,
      speed |-> IF DurationPanics(clock_freq) THEN 0 ELSE SpeedOf(clock_freq),
      ticker |-> TickerReset,
      delay_timer |-> 0,
      sound_timer |-> 0 ]

(***************************************************************************)
(* The outcome of an operation: the state it leaves, or the panic that     *)
(* ended it, and the frame it returns.                                     *)
(***************************************************************************)
Done(s) == [state |-> s, panic |-> "none", frame |-> NoFrame]
\* A clear or draw that returns no frame.
EmitNothing(s) == [state |-> s, panic |-> "none", frame |-> NoFrame]

Emit(s) == [state |-> s, panic |-> "none", frame |-> << s.display >>]
Panic(s, cause) == [state |-> s, panic |-> cause, frame |-> NoFrame]

\* ChipState::increment_pc: pc += 2, then the 12-bit mask.
increment_pc(s) == [s EXCEPT !.pc = ((s.pc + 2) % U16) % MemSize]

\* ChipState::load, given what fs::read returned: [ok |-> TRUE, bytes |-> b]
\* or the io error [ok |-> FALSE].  The result is Ok(()) or that error.
load(s, read) ==
    IF ~read.ok THEN [state |-> s, panic |-> "none", result |-> "Err"]
    ELSE IF ProgramStart + Len(read.bytes) > MemSize
    THEN [state |-> s, panic |-> "load_slice", result |-> "none"]
    ELSE [state |->
            [s EXCEPT
               !.memory = MemWrite(s.memory,
                            [a \in ProgramStart .. ProgramStart + Len(read.bytes) - 1 |->
                               read.bytes[a - ProgramStart + 1]]),
               !.pc = ProgramStart],
          panic |-> "none", result |-> "Ok"]

\* ChipState::fetch: the two reads of memory are bounds-checked in turn.
fetch(s) ==
    IF s.pc >= MemSize \/ s.pc + 1 >= MemSize
    THEN [state |-> s, panic |-> "memory_index", opcode |-> 0]
    ELSE [state |-> increment_pc(s), panic |-> "none",
          opcode |-> MemAt(s.memory, s.pc) * U8 + MemAt(s.memory, s.pc + 1)]

\* Timer handling that forgets the accumulator and decrements on every step.
handle_timers_every_step(s) ==
    [s EXCEPT !.delay_timer = Max(s.delay_timer - 1, 0),
              !.sound_timer = Max(s.sound_timer - 1, 0),
              !.ticker = TickerReset]

\* Timer handling whose decrement wraps: a timer at 0 goes to 255.
handle_timers_wrapping(s) ==
    LET t == Max(s.ticker - s.speed, 0)
    IN  IF t = 0
        THEN [s EXCEPT !.delay_timer = (s.delay_timer + U8 - 1) % U8,
                       !.sound_timer = (s.sound_timer + U8 - 1) % U8,
                       !.ticker = TickerReset]
        ELSE [s EXCEPT !.ticker = t]

\* The timer handling of step (mod.rs lines 32 to 38).
handle_timers(s) ==
    LET t == Max(s.ticker - s.speed, 0)
    IN  IF t = 0
        THEN [s EXCEPT !.delay_timer = Max(s.delay_timer - 1, 0),
                       !.sound_timer = Max(s.sound_timer - 1, 0),
                       !.ticker = TickerReset]
        ELSE [s EXCEPT !.ticker = t]

(***************************************************************************)
(* The sprite of Dxyn: the bytes memory.iter().skip(index).take(n), each   *)
(* turned into 8 pixels, most significant bit first.                       *)
(***************************************************************************)
SpriteRow(byte) == [j \in 1 .. ByteBits |-> Bit(byte, ByteBits - j)]

Sprite(s, n) ==
    LET rows == Min(n, Max(MemSize - s.index, 0))
    IN  [i \in 1 .. rows |-> SpriteRow(MemAt(s.memory, s.index + i - 1))]

\* A draw that wraps a sprite row round to column 0 instead of clipping it.
SpriteColumnWrapped(s, vx, j) == ((s.registers[vx] % DisplayWidth) + j) % DisplayWidth

\* The display column of bit j of a sprite row (mod.rs line 194).
SpriteColumn(s, vx, j) == (s.registers[vx] % DisplayWidth) + j

\* The inner loop of Draw from column j of one sprite row, on display row y.
\* registers[vx] is read again for every bit.
RECURSIVE DrawBits(_, _, _, _, _)
DrawBits(s, row, vx, y, j) ==
    IF j >= ByteBits THEN s
    ELSE LET x == SpriteColumn(s, vx, j)
         IN  IF x >= DisplayWidth THEN s
             ELSE LET pixel == PixelAt(s.display, y, x)
                      bit == row[j + 1]
                      hit == IF pixel = 1 /\ bit = 1
                             THEN [s EXCEPT !.registers[15] = 1] ELSE s
                  IN  DrawBits([hit EXCEPT
                                  !.display = PixelPut(s.display, y, x, XorBit(pixel, bit))],
                               row, vx, y, j + 1)

\* The outer loop of Draw from sprite row i.  registers[vy] is read again
\* for every row.
RECURSIVE DrawRows(_, _, _, _, _)
DrawRows(s, sprite, vx, vy, i) ==
    IF i >= Len(sprite) THEN s
    ELSE LET y == (s.registers[vy] % DisplayHeight) + i
         IN  IF y >= DisplayHeight THEN s
             ELSE DrawRows(DrawBits(s, sprite[i + 1], vx, y, 0), sprite, vx, vy, i + 1)

\* Instruction::Draw
Draw(s, vx, vy, n) ==
    LET cleared == [s EXCEPT !.registers[15] = 0]
    IN  DrawRows(cleared, Sprite(cleared, Min(n, MaxSpriteRows)), vx, vy, 0)

(***************************************************************************)
(* The other instructions that can panic.                                  *)
(***************************************************************************)
\* Instruction::Ret
Ret(s, checks) ==
    IF s.pointer >= StackSize THEN Panic(s, "stack_index")
    ELSE LET popped == [s EXCEPT !.pc = s.stack[s.pointer]]
         IN  IF s.pointer >= 1
             THEN Done([popped EXCEPT !.pointer = s.pointer - 1])
             ELSE IF checks THEN Panic(s, "overflow")
             ELSE Done([popped EXCEPT !.pointer = U8 - 1])

\* Instruction::Call
Call(s, addr, checks) ==
    LET p == (s.pointer + 1) % U8
    IN  IF s.pointer + 1 >= U8 /\ checks THEN Panic(s, "overflow")
        ELSE IF p >= StackSize THEN Panic(s, "stack_index")
        ELSE Done([s EXCEPT !.pointer = p, !.stack[p] = s.pc, !.pc = addr])

\* Instruction::Skp and Instruction::Sknp: keys[Vx] is an index into [bool; 16].
SkipKey(s, x, keys, wanted) ==
    IF s.registers[x] >= NumKeys THEN Panic(s, "keys_index")
    ELSE IF keys[s.registers[x]] = wanted THEN Done(increment_pc(s))
    ELSE Done(s)

\* The highest pressed key instead of the lowest.
LastKey(keys) == CHOOSE k \in 0 .. NumKeys - 1 :
                     keys[k] /\ \A l \in k + 1 .. NumKeys - 1 : ~keys[l]

\* keys.iter().position(|&key| key): the lowest pressed key.
FirstKey(keys) == CHOOSE k \in 0 .. NumKeys - 1 :
                      keys[k] /\ \A l \in 0 .. k - 1 : ~keys[l]

\* Instruction::Key
Key(s, x, keys, checks) ==
    IF \A k \in 0 .. NumKeys - 1 : ~keys[k]
    THEN IF s.pc >= 2 THEN Done([s EXCEPT !.pc = s.pc - 2])
         ELSE IF checks THEN Panic(s, "overflow")
         ELSE Done([s EXCEPT !.pc = s.pc - 2 + U16])
    ELSE Done([s EXCEPT !.registers[x] = FirstKey(keys)])

\* A conversion whose tens digit is Vx / 10, not reduced below 10.
BcdTensUnreduced(s, x) ==
    IF s.index + 3 > MemSize THEN Panic(s, "memory_index")
    ELSE LET v == s.registers[x]
             mem_slice == [a \in s.index .. s.index + 2 |->
                             CASE a = s.index -> v \div 100
                               [] a = s.index + 1 -> v \div 10
                               [] a = s.index + 2 -> v % 10]
         IN  Done([s EXCEPT !.memory = MemWrite(s.memory, mem_slice)])

\* Instruction::Bcd
Bcd(s, x) ==
    IF s.index + 3 > MemSize THEN Panic(s, "memory_index")
    ELSE LET v == s.registers[x]
             mem_slice == [a \in s.index .. s.index + 2 |->
                             CASE a = s.index -> v \div 100
                               [] a = s.index + 1 -> (v % 100) \div 10
                               [] a = s.index + 2 -> v % 10]
         IN  Done([s EXCEPT !.memory = MemWrite(s.memory, mem_slice)])

\* Instruction::Store
Store(s, x) ==
    IF s.index + x >= MemSize THEN Panic(s, "memory_index")
    ELSE Done([s EXCEPT !.memory = MemWrite(s.memory,
                                     [a \in s.index .. s.index + x |->
                                        s.registers[a - s.index]])])

\* Instruction::Load
Load(s, x) ==
    IF s.index + x >= MemSize THEN Panic(s, "memory_index")
    ELSE Done([s EXCEPT !.registers = [r \in 0 .. NumRegs - 1 |->
                                         IF r <= x THEN MemAt(s.memory, s.index + r)
                                         ELSE s.registers[r]]])

(***************************************************************************)
(* ChipState::execute.  rnd is the byte random::<u8>() returns.            *)
(***************************************************************************)
SkipIf(s, cond) == IF cond THEN Done(increment_pc(s)) ELSE Done(s)

SetReg(s, x, v) == Done([s EXCEPT !.registers[x] = v])

\* Add, Sub or Ssub writing the flag before the result, so that the result
\* overwrites the flag when x is F.
FlagThenSetReg(s, x, v, flag) ==
    Done([s EXCEPT !.registers = [[s.registers EXCEPT ![15] = flag] EXCEPT ![x] = v]])

\* A register operation that also writes VF, in the order of the source:
\* registers[x] first, registers[0xF] last.
SetRegThenFlag(s, x, v, flag) ==
    Done([s EXCEPT !.registers = [[s.registers EXCEPT ![x] = v] EXCEPT ![15] = flag]])

\* Shr and Shl write registers[0xF] first and then shift registers[x].
FlagThenShift(s, x, flag, left) ==
    LET flagged == [s.registers EXCEPT ![15] = flag]
        v == IF left THEN (flagged[x] * 2) % U8 ELSE flagged[x] \div 2
    IN  Done([s EXCEPT !.registers = [flagged EXCEPT ![x] = v]])

execute(s, instr, keys, rnd, checks) ==
    LET op == instr.op
        R == s.registers
    IN  CASE op = "Nop" -> Done(s)
          [] op = "Cls" -> Emit([s EXCEPT !.display = BlankDisplay])
          [] op = "Ret" -> Ret(s, checks)
          [] op = "Jmp" -> Done([s EXCEPT !.pc = instr.addr])
          [] op = "Call" -> Call(s, instr.addr, checks)
          [] op = "Ske" -> SkipIf(s, R[instr.x] = instr.byte)
          [] op = "Skne" -> SkipIf(s, R[instr.x] # instr.byte)
          [] op = "Skre" -> SkipIf(s, R[instr.x] = R[instr.y])
          [] op = "Setr" -> SetReg(s, instr.x, instr.byte)
          [] op = "Addr" -> SetReg(s, instr.x, (R[instr.x] + instr.byte) % U8)
          [] op = "Move" -> SetReg(s, instr.x, R[instr.y])
          [] op = "Or" -> SetReg(s, instr.x, BitOr(R[instr.x], R[instr.y]))
          [] op = "And" -> SetReg(s, instr.x, BitAnd(R[instr.x], R[instr.y]))
          [] op = "Xor" -> SetReg(s, instr.x, BitXor(R[instr.x], R[instr.y]))
          [] op = "Add" ->
                 SetRegThenFlag(s, instr.x, (R[instr.x] + R[instr.y]) % U8,
                                IF R[instr.x] + R[instr.y] >= U8 THEN 1 ELSE 0)
          [] op = "Sub" ->
                 SetRegThenFlag(s, instr.x, (R[instr.x] - R[instr.y] + U8) % U8,
                                IF R[instr.x] < R[instr.y] THEN 0 ELSE 1)
          [] op = "Shr" -> FlagThenShift(s, instr.x, R[instr.x] % 2, FALSE)
          [] op = "Ssub" ->
                 SetRegThenFlag(s, instr.x, (R[instr.y] - R[instr.x] + U8) % U8,
                                IF R[instr.y] < R[instr.x] THEN 0 ELSE 1)
          [] op = "Shl" -> FlagThenShift(s, instr.x, R[instr.x] \div 128, TRUE)
          [] op = "Skrne" -> SkipIf(s, R[instr.x] # R[instr.y])
          [] op = "Seti" -> Done([s EXCEPT !.index = instr.addr])
          [] op = "Jmpr" -> Done([s EXCEPT !.pc = (instr.addr + R[0]) % MemSize])
          [] op = "Rand" -> SetReg(s, instr.x, BitAnd(rnd, instr.byte))
          [] op = "Draw" -> Emit(Draw(s, instr.x, instr.y, instr.n))
          [] op = "Skp" -> SkipKey(s, instr.x, keys, TRUE)
          [] op = "Sknp" -> SkipKey(s, instr.x, keys, FALSE)
          [] op = "Moved" -> SetReg(s, instr.x, s.delay_timer)
          [] op = "Key" -> Key(s, instr.x, keys, checks)
          [] op = "Setrd" -> Done([s EXCEPT !.delay_timer = R[instr.x]])
          [] op = "Setrs" -> Done([s EXCEPT !.sound_timer = R[instr.x]])
          [] op = "Addi" -> Done([s EXCEPT !.index = (s.index + R[instr.x]) % MemSize])
          [] op = "Ldfnt" -> Done([s EXCEPT !.index = FontStart + 5 * R[instr.x]])
          [] op = "Bcd" -> Bcd(s, instr.x)
          [] op = "Store" -> Store(s, instr.x)
          [] op = "Load" -> Load(s, instr.x)

\* A step that leaves the timers alone when it executes an Fx0A with no key
\* pressed.
step_stall_skips_timers(s, keys, rnd, checks) ==
    LET f == fetch(s)
    IN  IF f.panic # "none"
        THEN [state |-> s, panic |-> f.panic, frame |-> NoFrame,
              instruction |-> NoInstruction]
        ELSE LET instr == decode(f.opcode)
             IN  IF instr.op = "panic"
                 THEN [state |-> s, panic |-> "decode", frame |-> NoFrame,
                       instruction |-> instr]
                 ELSE LET stalled == instr.op = "Key" /\ \A k \in 0 .. NumKeys - 1 : ~keys[k]
                          timed == IF stalled THEN f.state ELSE handle_timers(f.state)
                          r == execute(timed, instr, keys, rnd, checks)
                      IN  [state |-> r.state, panic |-> r.panic, frame |-> r.frame,
                           instruction |-> instr]

(***************************************************************************)
(* Interpreter::step: fetch, decode, the timers, then execute.  The result *)
(* carries the decoded instruction.  The opcode is decoded once: instr is  *)
(* the one element of { decode(f.opcode) }, like the local `instruction`.  *)
(***************************************************************************)
step(s, keys, rnd, checks) ==
    LET f == fetch(s)
    IN  IF f.panic # "none"
        THEN [state |-> s, panic |-> f.panic, frame |-> NoFrame,
              instruction |-> NoInstruction]
        ELSE CHOOSE result \in
               { IF instr.op = "panic"
                 THEN [state |-> s, panic |-> "decode", frame |-> NoFrame,
                       instruction |-> instr]
                 ELSE LET r == execute(handle_timers(f.state), instr, keys, rnd, checks)
                      IN  [state |-> r.state, panic |-> r.panic, frame |-> r.frame,
                           instruction |-> instr] :
                 instr \in { decode(f.opcode) } } : TRUE

\* Interpreter::buzzer_active
buzzer_active(s) == s.sound_timer # 0

(***************************************************************************)
(* The inputs: program images, key snapshots, clock frequencies and the    *)
(* bytes the random generator returns.                                     *)
(***************************************************************************)
\* The bytes of a sequence of big-endian opcodes.
Bytes(ops) ==
    [i \in 1 .. 2 * Len(ops) |->
       IF i % 2 = 1 THEN ops[(i + 1) \div 2] \div U8 ELSE ops[i \div 2] % U8]

\* The address of the k-th opcode (from 0) of a loaded image.
AddrOf(k) == ProgramStart + 2 * k

\* A program followed by a jump to itself, the usual way a program halts.
WithHalt(ops) == Append(ops, \h1000 + AddrOf(Len(ops)))

\* The deepest chain of nested calls tried, and the longest image tried.
MaxChain == 17
MaxImage == 3585

\* k nested calls: the call at AddrOf(i) calls AddrOf(i + 1).
CallChainRom(k) == Bytes(WithHalt([i \in 1 .. k |-> \h2000 + AddrOf(i)]))

\* A return with no call before it.
RetRom == Bytes(WithHalt(<< \h00EE >>))

\* Opcodes that match no arm of decode.
UndefinedOpcodes == { \h5001, \h8008, \h9001, \hE000, \hF000, \hFFFF }
UndefinedRoms == { Bytes(<< \h6001, op >>) : op \in UndefinedOpcodes }

\* Fx0A followed by a halt.
KeyWaitRom(x) == Bytes(WithHalt(<< \hF00A + x * 256 >>))

\* An image of n zero bytes, and the largest image that fits: a jump to
\* 0xFFE, where its last two bytes hold F00A.
ZeroRom(n) == [i \in 1 .. n |-> 0]
KeyWaitAtEndRom ==
    [i \in 1 .. MemSize - ProgramStart |->
       CASE i = 1 -> \h1F
         [] i = 2 -> \hFE
         [] i = MemSize - ProgramStart - 1 -> \hF0
         [] i = MemSize - ProgramStart -> \h0A
         [] OTHER -> 0]

\* V0 = 0xD0 and V1 = 0x13 stored at 0x000, a jump to 0xFFE, and D013 in
\* the last two bytes of the largest image: the draw at 0xFFE is followed
\* by the same draw at 0x000.
DrawAtEndRom ==
    [i \in 1 .. MemSize - ProgramStart |->
       IF i <= 10
       THEN Bytes(<< \h60D0, \h6113, \hA000, \hF155, \h1FFE >>)[i]
       ELSE CASE i = MemSize - ProgramStart - 1 -> \hD0
              [] i = MemSize - ProgramStart -> \h13
              [] OTHER -> 0]

\* A jump to the odd address 0xFFF.
JumpOddRom == Bytes(<< \h1FFF >>)

\* I set to addr, then one I-relative instruction.
IndexRoms ==
    { Bytes(WithHalt(<< \h6107, \hA000 + addr, op >>)) :
        addr \in { \hFFD, \hFFE, \hFFF }, op \in { \hF133, \hF155, \hF165, \hD005 } }

\* V[xr] and V[yr] set to the origin, I to the sprite stored after the
\* code, then the same Dxyn twice.
DrawRom(xr, yr, ox, oy, n, sprite) ==
    Bytes(<< \hA000 + AddrOf(6),
             \h6000 + xr * 256 + ox,
             \h6000 + yr * 256 + oy,
             \hD000 + xr * 256 + yr * 16 + n,
             \hD000 + xr * 256 + yr * 16 + n,
             \h1000 + AddrOf(5) >>)
    \o sprite

DrawSprite == << \hFF, \h81, \hC3 >>
DrawRegs == { << 0, 1 >>, << 15, 1 >>, << 0, 15 >> }
DrawOrigins == { << 0, 0 >>, << 60, 0 >>, << 5, 30 >>, << 62, 31 >>, << 124, 62 >> }
DrawRoms ==
    { DrawRom(r[1], r[2], o[1], o[2], n, DrawSprite) :
        r \in DrawRegs, o \in DrawOrigins, n \in { 1, 3 } }

\* Both timers set to 3, then a loop that reads the delay timer.
TimerRom ==
    Bytes(<< \h6003, \hF015, \hF018, \hF107, \h1000 + AddrOf(3) >>)

\* V1 = 0x55, V[x] = v, then the shift 8x16 (op = 6) or 8x1E (op = 14).
ShiftRom(x, v, op) ==
    Bytes(WithHalt(<< \h6155, \h6000 + x * 256 + v, \h8010 + x * 256 + op >>))
ShiftValues == { 1, 2, \h80, \hFF }
ShiftRoms == { ShiftRom(x, v, op) : x \in { 0, 15 }, v \in ShiftValues, op \in { 6, 14 } }

\* V[x] = a, V[y] = b, then 8xy4 (op = 4), 8xy5 (op = 5) or 8xy7 (op = 7).
ArithRom(x, y, a, b, op) ==
    Bytes(WithHalt(<< \h6000 + x * 256 + a, \h6000 + y * 256 + b,
                      \h8000 + x * 256 + y * 16 + op >>))
ArithRegs == { << 0, 1 >>, << 15, 1 >>, << 0, 15 >>, << 15, 15 >> }
ArithValues == { << 255, 1 >>, << 100, 155 >>, << 5, 5 >>, << 0, 7 >> }
ArithRoms ==
    { ArithRom(r[1], r[2], v[1], v[2], op) :
        r \in ArithRegs, v \in ArithValues, op \in { 4, 5, 7 } }

\* V3 = v, I = 0x300, then F333.
BcdTarget == \h300
BcdRom(v) == Bytes(WithHalt(<< \h6300 + v, \hA000 + BcdTarget, \hF333 >>))
BcdValues == { 0, 9, 10, 99, 100, 254, 255 }
BcdRoms == { BcdRom(v) : v \in BcdValues }

\* The sprite drawn at (0, 0), then 00E0.
ClsRom ==
    Bytes(<< \hA000 + AddrOf(4), \hD013, \h00E0, \h1000 + AddrOf(3) >>) \o DrawSprite

\* A call within a call and the two returns: 0x200 calls 0x204, 0x204 calls
\* 0x208, the returns at 0x208 and 0x206 lead back to the halt at 0x202.
CallRetRom ==
    Bytes(<< \h2000 + AddrOf(2), \h1000 + AddrOf(1), \h2000 + AddrOf(4), \h00EE,
             \h00EE >>)

\* V0 = v, then E09E or E0A1 and the instruction it may skip.
KeySkipRom(v, op) == Bytes(WithHalt(<< \h6000 + v, op, \h6101 >>))
KeySkipValues == { 5, 16, 255 }
KeySkipRoms == { KeySkipRom(v, op) : v \in KeySkipValues, op \in { \hE09E, \hE0A1 } }

\* Both timers set to 3, a wait for a key, then a loop that reads the
\* delay timer.
StallTimerRom ==
    Bytes(<< \h6003, \hF015, \hF018, \hF10A, \hF207, \h1000 + AddrOf(4) >>)

Roms ==
    { CallChainRom(MaxChain), RetRom, KeyWaitRom(1), KeyWaitAtEndRom, JumpOddRom,
      TimerRom, ZeroRom(MaxImage) }
    \cup UndefinedRoms \cup IndexRoms \cup DrawRoms \cup ShiftRoms \cup ArithRoms
    \cup BcdRoms \cup { ClsRom, CallRetRom, StallTimerRom, DrawAtEndRom } \cup KeySkipRoms

\* What fs::read can return.
ReadResults == { [ok |-> TRUE, bytes |-> rom] : rom \in Roms }
               \cup { [ok |-> FALSE, bytes |-> << >>] }

Keypad(pressed) == [k \in 0 .. NumKeys - 1 |-> k \in pressed]
KeySnapshots == { Keypad({}), Keypad({5}), Keypad({3, 7}) }
NoKeys(keys) == \A k \in 0 .. NumKeys - 1 : ~keys[k]

RandBytes == { 0, \hA5, \hFF }

\* 0 makes new panic; 2147483647 has a period that rounds to 0 ns, as has
\* every frequency above 2000000000.
Freqs == { 0, 50, 100, 700, 1024, 2147483647 }

(***************************************************************************)
(* The host: main constructs the machine, loads the image and, if load     *)
(* returned Ok, hands the machine to the loop that calls step.             *)
(***************************************************************************)
Install(s) ==
    /\ memory' = s.memory
    /\ registers' = s.registers
    /\ pc' = s.pc
    /\ index' = s.index
    /\ pointer' = s.pointer
    /\ stack' = s.stack
    /\ display' = s.display
    /\ speed' = s.speed
    /\ ticker' = s.ticker
    /\ delay_timer' = s.delay_timer
    /\ sound_timer' = s.sound_timer

Init ==
    /\ \E clock_freq \in Freqs :
         /\ LET s == new(clock_freq)
            IN  /\ memory = s.memory
                /\ registers = s.registers
                /\ pc = s.pc
                /\ index = s.index
                /\ pointer = s.pointer
                /\ stack = s.stack
                /\ display = s.display
                /\ speed = s.speed
                /\ ticker = s.ticker
                /\ delay_timer = s.delay_timer
                /\ sound_timer = s.sound_timer
         /\ status = IF DurationPanics(clock_freq) THEN "aborted" ELSE "constructed"
         /\ fault = IF DurationPanics(clock_freq) THEN "duration" ELSE "none"
    /\ instruction = NoInstruction
    /\ frame = NoFrame
    /\ overflow_checks \in BOOLEAN
    /\ calls = FALSE

\* main's chip.load(rom)?, with read what fs::read returns.
LoadWith(read) ==
    /\ status = "constructed"
    /\ LET r == load(Chip, read)
       IN  IF r.panic # "none"
           THEN /\ status' = "aborted"
                /\ fault' = r.panic
                /\ UNCHANGED chipVars
           ELSE /\ status' = IF r.result = "Ok" THEN "running" ELSE "exited"
                /\ fault' = "none"
                /\ Install(r.state)
    /\ UNCHANGED << instruction, frame, overflow_checks, calls >>

LoadRom == \E read \in ReadResults : LoadWith(read)

\* One call of step by the host loop, with the keys snapshot it passes and
\* the byte the random generator would return.
StepWith(keys, rnd) ==
    /\ status = "running"
    /\ \E r \in { step(Chip, keys, rnd, overflow_checks) } :
           /\ instruction' = r.instruction
           /\ frame' = r.frame
           /\ IF r.panic # "none"
              THEN /\ status' = "aborted"
                   /\ fault' = r.panic
                   /\ UNCHANGED chipVars
              ELSE /\ UNCHANGED << status, fault >>
                   /\ Install(r.state)
    /\ calls' = ~calls
    /\ UNCHANGED overflow_checks

Step == \E keys \in KeySnapshots, rnd \in RandBytes : StepWith(keys, rnd)

Next == LoadRom \/ Step

Spec == Init /\ [][Next]_vars

\* The runs of the images that set the sound timer, in which the host loop
\* does not stop calling step while the process runs.  Every call changes
\* calls, so the fairness is on the calls, whatever they do to the machine
\* and whatever keys they pass: a run that waits for a key for ever, with no
\* key ever pressed, is one of these runs.
SoundRoms == { TimerRom, StallTimerRom }
LoadSoundRom == \E read \in { [ok |-> TRUE, bytes |-> rom] : rom \in SoundRoms } : LoadWith(read)
SoundNext == LoadSoundRom \/ Step
FairSpec == Init /\ [][SoundNext]_vars /\ WF_vars(Step)

TypeOK ==
    /\ calls \in BOOLEAN
    /\ status \in { "constructed", "running", "aborted", "exited" }
    /\ pointer \in 0 .. U8 - 1
    /\ delay_timer \in 0 .. U8 - 1
    /\ sound_timer \in 0 .. U8 - 1
    /\ \A r \in 0 .. NumRegs - 1 : registers[r] \in 0 .. U8 - 1

(***************************************************************************)
(* The instruction the next step will execute.                             *)
(***************************************************************************)
CanFetch == status = "running" /\ fetch(Chip).panic = "none"
CurOpcode == fetch(Chip).opcode
CurInstr == IF CanFetch THEN decode(CurOpcode) ELSE NoInstruction

DefinedOps ==
    { "Nop", "Cls", "Ret", "Jmp", "Call", "Ske", "Skne", "Skre", "Setr", "Addr",
      "Move", "Or", "And", "Xor", "Add", "Sub", "Shr", "Ssub", "Shl", "Skrne",
      "Seti", "Jmpr", "Rand", "Draw", "Skp", "Sknp", "Moved", "Key", "Setrd",
      "Setrs", "Addi", "Ldfnt", "Bcd", "Store", "Load" }

(***************************************************************************)
(* C1: a Call executed while fewer than 16 calls are outstanding (the      *)
(* first 16 nested calls of a fresh machine) succeeds: the process goes    *)
(* on, PC is the target address and the stack pointer stays in 0..15.      *)
(***************************************************************************)
C1_SixteenNestedCalls ==
    [][(CurInstr.op = "Call" /\ pointer < StackSize /\ Step)
         => /\ status' = "running"
            /\ pc' = CurInstr.addr
            /\ pointer' \in 0 .. StackSize - 1]_vars

(***************************************************************************)
(* C2: a Ret executed on an empty call stack does not abort the process,   *)
(* does not take the stack pointer out of 0..15 and does not load PC from  *)
(* a stack slot.                                                           *)
(***************************************************************************)
C2_RetOnEmptyStack ==
    [][(CurInstr.op = "Ret" /\ pointer = 0 /\ Step)
         => /\ status' = "running"
            /\ pointer' \in 0 .. StackSize - 1
            /\ pc' \in { pc, increment_pc(Chip).pc }]_vars

(***************************************************************************)
(* C3: decode is total: whatever opcode step fetches decodes to one of     *)
(* the defined instructions (the no-op included) and never panics.         *)
(***************************************************************************)
C3_DecodeTotal ==
    /\ CanFetch => decode(CurOpcode).op \in DefinedOps
    /\ fault # "decode"

(***************************************************************************)
(* C4: key-wait stall.  A step on an Fx0A, at any address, with no key     *)
(* pressed leaves PC at the address of the Fx0A and Vx unchanged; with a   *)
(* key pressed it sets Vx to a pressed key and leaves PC at the following  *)
(* instruction.                                                            *)
(***************************************************************************)
C4_KeyWaitStall ==
    [][\A keys \in KeySnapshots, rnd \in RandBytes :
         (CurInstr.op = "Key" /\ StepWith(keys, rnd))
           => /\ status' = "running"
              /\ IF NoKeys(keys)
                 THEN pc' = pc /\ registers' = registers
                 ELSE /\ keys[registers'[CurInstr.x]]
                      /\ pc' = (pc + 2) % MemSize]_vars

(***************************************************************************)
(* C5: timer decay.  With a nonzero clock period shorter than the          *)
(* accumulator window, the accumulator always holds the window less the    *)
(* periods of the steps since it was last reset.  A nonzero delay_timer    *)
(* that the step's instruction does not rewrite goes down by exactly 1 in  *)
(* the step whose period completes the window, where the accumulator is    *)
(* reset to the window, and is unchanged in every other step.              *)
(***************************************************************************)
C5_TimerDecay ==
    /\ [](speed \in 1 .. TickerReset - 1
            => ticker \in 1 .. TickerReset /\ (TickerReset - ticker) % speed = 0)
    /\ [][(Step /\ status' = "running" /\ speed < TickerReset
             /\ delay_timer > 0 /\ CurInstr.op # "Setrd")
            => IF (TickerReset - ticker) + speed >= TickerReset
               THEN delay_timer' = delay_timer - 1 /\ ticker' = TickerReset
               ELSE delay_timer' = delay_timer /\ ticker' = ticker - speed]_vars

\* A window has just been completed and took delay_timer from 3 to 2.
C5_Witness ==
    /\ status = "running"
    /\ speed < TickerReset
    /\ instruction.op \in { "Moved", "Jmp" }
    /\ ticker = TickerReset
    /\ delay_timer = 2

(***************************************************************************)
(* C6: the program counter never exceeds 0x0FFF, and no update of it       *)
(* overflows or underflows.                                                *)
(***************************************************************************)
C6_PcWithinMemory ==
    /\ pc <= \hFFF
    /\ ~(fault = "overflow" /\ instruction.op = "Key")

(***************************************************************************)
(* C7: no step indexes memory outside 0x000..0xFFF, in the opcode fetch    *)
(* or in an I-relative access.                                             *)
(***************************************************************************)
C7_MemoryBounds == fault # "memory_index"

(***************************************************************************)
(* C8: loading an image of at most 3584 bytes succeeds, copies it          *)
(* unmodified to 0x200.. and sets PC to 0x200; loading a longer image      *)
(* yields an error value and does not abort the process.                   *)
(***************************************************************************)
C8_LoadBounds ==
    [][\A read \in ReadResults :
         (read.ok /\ LoadWith(read))
           => IF Len(read.bytes) <= MemSize - ProgramStart
              THEN /\ status' = "running"
                   /\ pc' = ProgramStart
                   /\ \A i \in 1 .. Len(read.bytes) :
                        MemAt(memory', ProgramStart + i - 1) = read.bytes[i]
              ELSE status' = "exited"]_vars

(***************************************************************************)
(* C9: when a Dxyn is followed by the same Dxyn, the second draw restores  *)
(* every display cell to its value before the first; the first draw        *)
(* reports no collision and the second reports one.                        *)
(***************************************************************************)
SameOpcodeFollows ==
    /\ CanFetch
    /\ LET next == fetch(fetch(Chip).state)
       IN  next.panic = "none" /\ next.opcode = CurOpcode

C9_DrawTwiceRestores ==
    [][(CurInstr.op = "Draw" /\ SameOpcodeFollows /\ Step)
         => LET second == step(Chip', Keypad({}), 0, overflow_checks)
            IN  /\ second.panic = "none"
                /\ second.state.display = display
                /\ registers'[15] = 0
                /\ (display' # display => second.state.registers[15] = 1)]_vars

(***************************************************************************)
(* C10: display clipping.  A Dxyn whose origin column plus 8 exceeds 64    *)
(* or whose origin row plus n exceeds 32 changes only cells at columns     *)
(* origin_x..63 and rows origin_y..31: nothing wraps to the opposite       *)
(* edge.  The origin is (Vx mod 64, Vy mod 32), read after the reset of    *)
(* VF that precedes the drawing.                                           *)
(***************************************************************************)
C10_DisplayClipping ==
    [][(CurInstr.op = "Draw" /\ Step /\ status' = "running")
         => LET R == [registers EXCEPT ![15] = 0]
                origin_x == R[CurInstr.x] % DisplayWidth
                origin_y == R[CurInstr.y] % DisplayHeight
                n == Min(CurInstr.n, MaxSpriteRows)
            IN  (origin_x + ByteBits > DisplayWidth \/ origin_y + n > DisplayHeight)
                  => \A y \in 0 .. DisplayHeight - 1, x \in 0 .. DisplayWidth - 1 :
                       PixelAt(display', y, x) # PixelAt(display, y, x)
                         => /\ x >= origin_x
                            /\ y >= origin_y]_vars

\* A sprite row of eight set bits has been drawn at origin (60, 0): columns
\* 60..63 of row 0 are on and column 0 is not.
C10_Witness ==
    /\ status = "running"
    /\ instruction.op = "Draw"
    /\ instruction.x # 15 /\ instruction.y # 15
    /\ registers[instruction.x] % DisplayWidth = 60
    /\ registers[instruction.y] % DisplayHeight = 0
    /\ \A x \in 60 .. 63 : << 0, x >> \in display
    /\ << 0, 0 >> \notin display

(***************************************************************************)
(* C11: shift correctness.  For every register x in 0..15 and every value  *)
(* of Vx, after 8xy6 VF is the low bit Vx had before the shift and after   *)
(* 8xyE VF is the high bit it had; for x other than F, Vx is the value it  *)
(* had divided by 2, or times 2 modulo 256; no other register changes,     *)
(* whatever Vy holds.                                                      *)
(***************************************************************************)
C11_ShiftCorrectness ==
    [][(CurInstr.op \in { "Shr", "Shl" } /\ Step /\ status' = "running")
         => LET x == CurInstr.x
                v == registers[x]
                flag == IF CurInstr.op = "Shr" THEN v % 2 ELSE v \div 128
                shifted == IF CurInstr.op = "Shr" THEN v \div 2 ELSE (v * 2) % U8
            IN  /\ registers'[15] = flag
                /\ x # 15 => registers'[x] = shifted
                /\ \A r \in 0 .. NumRegs - 2 : r # x => registers'[r] = registers[r]]_vars

(***************************************************************************)
(* C12: Add/Sub/Subn flags.  For every register pair (x, y), x = F and     *)
(* y = F included, VF after 8xy4 is 1 if the values Vx and Vy had before   *)
(* the operation sum to more than 255 and 0 otherwise; VF after 8xy5 is 1  *)
(* if Vx >= Vy before the operation and 0 otherwise; VF after 8xy7 is 1    *)
(* if Vy >= Vx before the operation and 0 otherwise.                       *)
(***************************************************************************)
C12_ArithFlags ==
    [][(CurInstr.op \in { "Add", "Sub", "Ssub" } /\ Step /\ status' = "running")
         => LET vx == registers[CurInstr.x]
                vy == registers[CurInstr.y]
                holds == CASE CurInstr.op = "Add" -> vx + vy > U8 - 1
                           [] CurInstr.op = "Sub" -> vx >= vy
                           [] CurInstr.op = "Ssub" -> vy >= vx
            IN  registers'[15] = IF holds THEN 1 ELSE 0]_vars

\* 8F14 has added V1 = 1 to VF = 255: the sum wrapped to 0 and VF holds
\* the carry.
C12_Witness ==
    /\ status = "running"
    /\ instruction = [op |-> "Add", x |-> 15, y |-> 1]
    /\ registers[1] = 1
    /\ registers[15] = 1

(***************************************************************************)
(* C13: BCD round trip.  After an Fx33 whose three bytes mem[I], mem[I+1]  *)
(* and mem[I+2] are addresses of memory, each of them is a decimal digit   *)
(* 0..9, 100*mem[I] + 10*mem[I+1] + mem[I+2] is the value of Vx, and no    *)
(* other memory byte, no register and not I has changed.                   *)
(***************************************************************************)
C13_BcdRoundTrip ==
    [][(CurInstr.op = "Bcd" /\ index + 2 < MemSize /\ Step)
         => /\ status' = "running"
            /\ \A k \in 0 .. 2 : MemAt(memory', index + k) \in 0 .. 9
            /\ 100 * MemAt(memory', index) + 10 * MemAt(memory', index + 1)
                  + MemAt(memory', index + 2) = registers[CurInstr.x]
            /\ \A a \in 0 .. MemSize - 1 :
                  a \notin index .. index + 2 => MemAt(memory', a) = MemAt(memory, a)
            /\ registers' = registers
            /\ index' = index]_vars

\* F333 has converted V3 = 254 to the digits 2, 5, 4 at 0x300.
C13_Witness ==
    /\ status = "running"
    /\ instruction = [op |-> "Bcd", x |-> 3]
    /\ registers[3] = 254
    /\ index = BcdTarget
    /\ MemAt(memory, BcdTarget) = 2
    /\ MemAt(memory, BcdTarget + 1) = 5
    /\ MemAt(memory, BcdTarget + 2) = 4

(***************************************************************************)
(* C14: frame emission.  A step that returns returns a display frame if    *)
(* and only if the instruction it executed is 00E0 or Dxyn; the frame is   *)
(* the machine's display after the instruction; after 00E0 every cell of   *)
(* it is off; every other instruction leaves the display unchanged.        *)
(***************************************************************************)
C14_FrameEmission ==
    [][(Step /\ status' = "running")
         => /\ frame' # NoFrame <=> CurInstr.op \in { "Cls", "Draw" }
            /\ frame' # NoFrame => frame' = << display' >>
            /\ CurInstr.op = "Cls"
                  => \A y \in 0 .. DisplayHeight - 1, x \in 0 .. DisplayWidth - 1 :
                       PixelAt(frame'[1], y, x) = 0
            /\ CurInstr.op \notin { "Cls", "Draw" } => display' = display]_vars

\* 00E0 has cleared the display the sprite was drawn on and returned the
\* blank frame.
C14_Witness ==
    /\ status = "running"
    /\ instruction.op = "Cls"
    /\ MemAt(memory, pc - 4) * U8 + MemAt(memory, pc - 3) = \hD013
    /\ frame = << display >>
    /\ display = BlankDisplay

(***************************************************************************)
(* C15: call/return LIFO ordering.  A Call executed while fewer than 16    *)
(* calls are outstanding succeeds, keeps the entries of the outstanding    *)
(* calls, and a Ret executed next would set PC to the address following    *)
(* the Call and the stack pointer to its value before the Call; a Ret on   *)
(* a non-empty stack sets PC to the top entry and pops it; no other        *)
(* instruction changes the stack or the stack pointer.                     *)
(***************************************************************************)
C15_CallReturnLifo ==
    [][Step
         => CASE CurInstr.op = "Call" /\ pointer < StackSize ->
                   /\ status' = "running"
                   /\ LET back == Ret(Chip', overflow_checks)
                      IN  /\ back.panic = "none"
                          /\ back.state.pc = (pc + 2) % MemSize
                          /\ back.state.pointer = pointer
                   /\ \A i \in 1 .. pointer : stack'[i] = stack[i]
              [] CurInstr.op = "Ret" /\ pointer \in 1 .. StackSize - 1 ->
                   /\ status' = "running"
                   /\ pc' = stack[pointer]
                   /\ pointer' = pointer - 1
                   /\ stack' = stack
              [] OTHER ->
                   (status' = "running" /\ CurInstr.op \notin { "Call", "Ret" })
                     => stack' = stack /\ pointer' = pointer]_vars

(***************************************************************************)
(* C16: the key-skip instructions are fault-free for every operand.  For   *)
(* every value of Vx in 0..255 and every keys snapshot, Ex9E and ExA1 do   *)
(* not abort; Ex9E leaves PC 4 past the instruction exactly when key       *)
(* number Vx is pressed and 2 past it otherwise, ExA1 the other way round. *)
(***************************************************************************)
C16_KeySkipFaultFree ==
    [][\A keys \in KeySnapshots, rnd \in RandBytes :
         (CurInstr.op \in { "Skp", "Sknp" } /\ StepWith(keys, rnd))
           => LET v == registers[CurInstr.x]
                  pressed == v < NumKeys /\ keys[v]
                  skips == (CurInstr.op = "Skp") = pressed
              IN  /\ status' = "running"
                  /\ fault' # "keys_index"
                  /\ pc' = (pc + (IF skips THEN 4 ELSE 2)) % MemSize]_vars

(***************************************************************************)
(* C17: the sprite origin is fixed for the whole draw.  For every Dxyn,    *)
(* x = F and y = F included, there is one origin (Vx mod 64, Vy mod 32),   *)
(* read from the registers either as the instruction finds them or as      *)
(* they are once VF is reset, such that the display after the draw is the  *)
(* display before it with every set bit of every sprite row XORed into     *)
(* the cell at (origin_x + column, origin_y + row), cells beyond the       *)
(* edges dropped.                                                          *)
(***************************************************************************)
C17_SpriteOriginFixed ==
    [][(CurInstr.op = "Draw" /\ Step /\ status' = "running")
         => LET sprite == Sprite(Chip, Min(CurInstr.n, MaxSpriteRows))
                bits(ox, oy) ==
                    { p \in (1 .. Len(sprite)) \X (0 .. ByteBits - 1) :
                        /\ sprite[p[1]][p[2] + 1] = 1
                        /\ oy + p[1] - 1 < DisplayHeight
                        /\ ox + p[2] < DisplayWidth }
                cells(ox, oy) == { << oy + p[1] - 1, ox + p[2] >> : p \in bits(ox, oy) }
                drawn(ox, oy) == (display \ cells(ox, oy)) \cup (cells(ox, oy) \ display)
            IN  \E R \in { registers, [registers EXCEPT ![15] = 0] } :
                  display' = drawn(R[CurInstr.x] % DisplayWidth,
                                   R[CurInstr.y] % DisplayHeight)]_vars

(***************************************************************************)
(* C18: the timers keep decaying during a key-wait stall.  A step that     *)
(* executes an Fx0A with no key pressed, returns and leaves PC on the Fx0A *)
(* handles the timers like any other step: when the clock period uses up   *)
(* what is left of the accumulator window, delay_timer and sound_timer     *)
(* each go down by 1 unless already 0 and the accumulator is reset;        *)
(* otherwise the timers are unchanged and the accumulator goes down by     *)
(* the period.                                                             *)
(***************************************************************************)
C18_TimersDuringKeyWait ==
    [][\A keys \in KeySnapshots, rnd \in RandBytes :
         (CurInstr.op = "Key" /\ NoKeys(keys) /\ StepWith(keys, rnd)
            /\ status' = "running" /\ pc' = pc)
           => IF ticker <= speed
              THEN /\ delay_timer' = IF delay_timer > 0 THEN delay_timer - 1 ELSE 0
                   /\ sound_timer' = IF sound_timer > 0 THEN sound_timer - 1 ELSE 0
                   /\ ticker' = TickerReset
              ELSE /\ delay_timer' = delay_timer
                   /\ sound_timer' = sound_timer
                   /\ ticker' = ticker - speed]_vars

\* Stalled on F10A with both timers set to 3 before the wait: a window has
\* just been completed by a stalled step and the timers are down to 1.
C18_Witness ==
    /\ status = "running"
    /\ instruction = [op |-> "Key", x |-> 1]
    /\ CurInstr.op = "Key"
    /\ registers[0] = 3
    /\ speed < TickerReset
    /\ ticker = TickerReset
    /\ delay_timer = 1
    /\ sound_timer = 1

(***************************************************************************)
(* C19 as the spec has it, for every clock period: buzzer_active() is true  *)
(* exactly when sound_timer is nonzero; a step that does not execute Fx18   *)
(* takes sound_timer down by 1 when it completes an accumulator window and  *)
(* sound_timer is nonzero and leaves it unchanged otherwise, and likewise   *)
(* delay_timer for Fx15, so a timer at 0 stays 0; and while the host keeps  *)
(* calling step, a nonzero sound_timer leads to sound_timer = 0 and the     *)
(* buzzer off, unless the process aborts or comes to execute another Fx18.  *)
(***************************************************************************)
C19_BuzzerStopsAtAnyPeriod ==
    /\ [](buzzer_active(Chip) <=> sound_timer # 0)
    /\ [][(Step /\ status' = "running")
            => LET window == ticker <= speed
               IN  /\ CurInstr.op # "Setrs"
                     => sound_timer' = IF window /\ sound_timer > 0
                                       THEN sound_timer - 1 ELSE sound_timer
                   /\ CurInstr.op # "Setrd"
                     => delay_timer' = IF window /\ delay_timer > 0
                                       THEN delay_timer - 1 ELSE delay_timer]_vars
    /\ (sound_timer # 0)
          ~> \/ sound_timer = 0 /\ ~buzzer_active(Chip)
             \/ status # "running"
             \/ CurInstr.op = "Setrs"

(***************************************************************************)
(* C19, amended: the buzzer eventually stops when the clock period is not  *)
(* 0 ns, and the timers never wrap.  buzzer_active() is true exactly when  *)
(* sound_timer is nonzero.  A step that does not execute Fx18 takes        *)
(* sound_timer down by 1 when it completes an accumulator window and       *)
(* sound_timer is nonzero, and leaves it unchanged otherwise, and likewise *)
(* delay_timer for Fx15: a timer at 0 stays 0.  With a period of 0 ns no   *)
(* step completes a window and only Fx15 and Fx18 change the timers.       *)
(* While the host keeps calling step with a nonzero period, a nonzero      *)
(* sound_timer leads to sound_timer = 0 and the buzzer off, unless the     *)
(* process aborts or comes to execute another Fx18.                        *)
(***************************************************************************)
C19_BuzzerStops ==
    /\ [](buzzer_active(Chip) <=> sound_timer # 0)
    /\ [][(Step /\ status' = "running")
            => LET window == ticker <= speed
               IN  /\ CurInstr.op # "Setrs"
                     => sound_timer' = IF window /\ sound_timer > 0
                                       THEN sound_timer - 1 ELSE sound_timer
                   /\ CurInstr.op # "Setrd"
                     => delay_timer' = IF window /\ delay_timer > 0
                                       THEN delay_timer - 1 ELSE delay_timer
                   /\ speed = 0 => ticker' = ticker /\ ~window]_vars
    /\ (sound_timer # 0 /\ speed > 0)
          ~> \/ sound_timer = 0 /\ ~buzzer_active(Chip)
             \/ status # "running"
             \/ CurInstr.op = "Setrs"

\* F018 has set sound_timer to 3; the steps since then have taken it to 0
\* and the buzzer is off.
C19_Witness ==
    /\ status = "running"
    /\ MemAt(memory, AddrOf(2)) * U8 + MemAt(memory, AddrOf(2) + 1) = \hF018
    /\ pc >= AddrOf(3)
    /\ registers[0] = 3
    /\ speed > 0
    /\ sound_timer = 0
    /\ ~buzzer_active(Chip)

(***************************************************************************)
(* C20: key-wait with several keys down.  When Fx0A executes with a keys   *)
(* snapshot in which more than one key is pressed, Vx is set to the lowest *)
(* index among the pressed keys, a value in 0..15, PC is left at the       *)
(* instruction after the Fx0A, and no other register is changed.           *)
(***************************************************************************)
C20_KeyWaitLowestKey ==
    [][\A keys \in KeySnapshots, rnd \in RandBytes :
         (/\ CurInstr.op = "Key"
          /\ \E k, l \in 0 .. NumKeys - 1 : k # l /\ keys[k] /\ keys[l]
          /\ StepWith(keys, rnd))
           => LET x == CurInstr.x
              IN  /\ status' = "running"
                  /\ registers'[x] \in 0 .. NumKeys - 1
                  /\ keys[registers'[x]]
                  /\ \A l \in 0 .. NumKeys - 1 : keys[l] => registers'[x] <= l
                  /\ pc' = (pc + 2) % MemSize
                  /\ \A r \in 0 .. NumRegs - 1 : r # x => registers'[r] = registers[r]]_vars

\* F10A has been executed with keys 3 and 7 down: V1 is 3 and PC has
\* moved on.
C20_Witness ==
    /\ status = "running"
    /\ instruction = [op |-> "Key", x |-> 1]
    /\ registers[1] = 3
    /\ CurInstr.op # "Key"
    /\ pc \in { AddrOf(1), AddrOf(4) }

====
